---- MODULE Spec2Model ----
(***************************************************************************)
(* Backend process lifecycle of the Productivity-App desktop shell.        *)
(*                                                                         *)
(* Five revisions of the supervisor live in the repository and are         *)
(* modelled side by side; `program` says which one a behaviour runs:       *)
(*   "main"     src/src/main.js      (Electron main process)               *)
(*   "launcher" src/src/start.js     (launcher script, lines 59-238)       *)
(*   "legacy"   src/unnamed/part_002 (older Electron main process)         *)
(*   "doc"      src/src/logging_format.md, lines 88-182 (older launcher)   *)
(*   "first"    src/src/start.js, lines 1-57 (first launcher script)       *)
(* A sixth value, "renderer", runs the page script src/src/renderer.js,     *)
(* "unit" calls the functions that no handler of these programs calls,     *)
(* and "store" runs the operations of the task store, whose code is not in *)
(* the repository's JavaScript sources: they follow the design document.   *)
(* "service" runs the HTTP task service over that store, in the same way.  *)
(*                                                                         *)
(* JavaScript runs one handler at a time, and the continuation of an       *)
(* `await` on a settled promise runs as a microtask before any other       *)
(* event: settling a promise and resuming its awaiter is one step.         *)
(* Timers carry no clock: a timer fires at any later step, the startup     *)
(* timers of successive calls in the order they were set.  The instant at  *)
(* which the readiness deadline of a start elapses is the step             *)
(* ...DeadlineElapses; a startup timer that is still armed fires in it.    *)
(* After app.quit() or process.exit() the process handles no more events.  *)
(***************************************************************************)
EXTENDS Naturals, FiniteSets, Sequences

\* Bounds of the model: the createWindow calls of one run, and the marker
\* chunks read from the children in one run.
MaxCalls == 2
MaxChunks == 2

\* The largest maxRetries a caller passes to fetchWithRetry.
MaxRetries == 3

\* The delay of setTimeout in fetchWithRetry, in ms.
RetryDelayMs == 1000

\* The default of the parameter maxRetries of fetchWithRetry.
DefaultMaxRetries == 3

\* The clicks on the add-task button in one run, and the longest text
\* typed into the title input.
MaxClicks == 2
MaxTitleLen == 2

\* The arguments passed to the methods of the preload API are 1..MaxArg.
MaxArg == 2

\* The longest results array PythonShell.run passes to its callback.
MaxResults == 2

\* The successful create operations of one run of the task store.
MaxCreates == 2

\* The characters of a title: a blank and a letter.
Chars == {" ", "a"}
Titles == UNION {[1..n -> Chars] : n \in 0..MaxTitleLen}

Calls == 1..MaxCalls

VARIABLES
    program,        \* which revision runs
    platform,       \* process.platform: "darwin" or "other"
    scriptExists,   \* fs.existsSync(scriptPath)
    health,         \* port 5000: "down", "up" (backend serves /health) or
                    \* "foreign" (another program answers, not with success)
    appState,       \* "starting", "running", "quit"
    exitCode,       \* exit code of the launcher; 0 while it runs
    ncalls,         \* number of createWindow / start calls made so far
    pythonProcess,  \* module-level handle: the call whose child it holds, 0 = null
    windows,        \* BrowserWindow.getAllWindows(): the calls whose window is open
    promise,        \* per call: the promise of startPythonServer
    reason,         \* main, per call: the message of the error it rejected with
    child,          \* per call: the child it spawned
    timer,          \* per call: the startup timer: "none", "armed", "fired", "cleared"
    pastDeadline,   \* per call: the readiness deadline has elapsed
    inflight,       \* per call: GET /health requests in flight
    retry,          \* per call: pending setTimeout(checkServer, 1000)
    markers,        \* marker chunks read from the children so far
    okProbe,        \* per call: a probe has completed with a success status
    pc,             \* per call: position of createWindow / start
    built,          \* the calls that have constructed a BrowserWindow
    resolveTimers,  \* launcher: pending setTimeout(resolve, 1000)
    electron,       \* launcher: the Electron child process
    bridge,         \* legacy: the bridge child process
    serverReady,    \* legacy: flag of startBackendProcesses
    bridgeReady,    \* legacy: flag of startBackendProcesses
    termHandler,    \* launchers: how the termination of the launcher went:
                    \* "none", "default" (SIGTERM with no handler registered),
                    \* "handled" (the handler ran), "threw" (the handler threw)
    reported,       \* the calls whose child's exit was reported to the shell
    maxRetries,     \* fetchWithRetry: its parameter
    i,              \* fetchWithRetry: the loop variable
    attempts,       \* fetchWithRetry: the fetch calls made
    fpc,            \* fetchWithRetry: "idle", "fetching", "sleeping",
                    \* "returned", "threw"
    fetchState,     \* the fetch awaited: "none", "inflight" (it will settle),
                    \* "stalled" (it never settles)
    outcomes,       \* the settled attempts in order: "ok" or "error"
    result,         \* the attempt whose response was returned or whose error
                    \* was thrown to the caller; 0 = none (undefined)
    delays,         \* the delays waited between attempts, in ms
    loadFired,      \* page: the 'load' event of the window was handled
    initpc,         \* page: initializeApp after its health check: "idle",
                    \* "refreshing", "listed", "listError", "failed"
    getAttempts,    \* page: the fetches made by initializeApp's refreshTaskList
    cpc,            \* page: the add-task click handler: "idle", "posting"
    clicks,         \* page: the clicks handled so far
    indicator,      \* page: the indicator shown: "none", "success", "error"
    lastPost,       \* page: how the last POST of the click handler ended
    lastReq,        \* page: the last request sent to /tasks
    handlers,       \* main: the channels registered with ipcMain.handle
    ipcReq,         \* main: the last request an IPC handler sent to /tasks
    ipcCall,        \* main: the last invocation of a handler of a task channel
    apiCall,        \* preload: the last call of a method of window.api
    invoked,        \* preload: the ipcRenderer.invoke calls it made, in order
    pyRun,          \* renderer: the last run of the callback of runPythonCommand
    tasks,          \* store: the rows of the tasks table, in insertion order
    nextId,         \* store: the id the next inserted row gets
    storeCall,      \* store: the last operation called
    storeRet,       \* store: what that operation returned or raised
    assigned,       \* store: the ids create has assigned, in creation order
    response        \* service: the response to the last HTTP request

vars == <<program, platform, scriptExists, health, appState, exitCode, ncalls,
          pythonProcess, windows, promise, reason, child, timer, pastDeadline,
          inflight, retry, markers, okProbe, pc, built, resolveTimers,
          electron, bridge, serverReady, bridgeReady, termHandler, reported,
          maxRetries, i, attempts, fpc, fetchState, outcomes, result, delays,
          loadFired, initpc, getAttempts, cpc, clicks, indicator, lastPost,
          lastReq, handlers, ipcReq, ipcCall, apiCall, invoked, pyRun, tasks, nextId,
          storeCall, storeRet, assigned, response>>

envVars == <<program, platform, scriptExists>>
launcherVars == <<resolveTimers, electron, exitCode>>
legacyVars == <<bridge, serverReady, bridgeReady>>
rendererVars == <<maxRetries, i, attempts, fpc, fetchState, outcomes, result,
                  delays>>
pageVars == <<loadFired, initpc, getAttempts, cpc, clicks, indicator,
              lastPost, lastReq>>
ipcVars == <<handlers, ipcReq, ipcCall>>
preloadVars == <<apiCall, invoked, pyRun>>
storeVars == <<tasks, nextId, storeCall, storeRet, assigned, response>>
supervisorVars == <<platform, scriptExists, health, appState, ncalls,
                    pythonProcess, windows, promise, child, timer,
                    pastDeadline, inflight, retry, markers, okProbe, pc, built,
                    launcherVars, legacyVars, termHandler, reported>>

Live == {"spawning", "running"}

\* No invocation of a handler.  entries are the entries the invocation
\* appended to the log file, console the lines it wrote with console.error.
NoIpcCall == [channel |-> "none", state |-> "none", error |-> "none",
              entries |-> <<>>, console |-> <<>>]

\* No run of the callback of runPythonCommand.  settles are the calls of
\* resolve and reject the callback made, in order; results.defined is false
\* for a results argument that is undefined or null.
NoPyRun == [rev |-> 0, err |-> "none",
            results |-> [defined |-> FALSE, items |-> <<>>],
            settles |-> <<>>, thrown |-> FALSE]

\* No HTTP response.
NoResponse == [method |-> "none", status |-> 0, error |-> FALSE, list |-> <<>>]

\* No call of the preload API.
NoCall == [method |-> "none", arg |-> 0]

\* No request.
NoReq == [method |-> "none", origin |-> "none", title |-> <<>>, ready |-> FALSE]

\* ------------------------------------------------------------------ Init

Init ==
    /\ program \in {"main", "launcher", "legacy", "doc", "first", "renderer",
                     "unit", "store", "service"}
    /\ platform \in {"darwin", "other"}
    /\ scriptExists \in BOOLEAN
    /\ health \in {"down", "foreign"}
    \* The page, the preload script and the store read none of the three.
    /\ program \in {"renderer", "unit", "store", "service"} =>
           platform = "other" /\ scriptExists /\ health = "down"
    /\ appState = "starting"
    /\ exitCode = 0
    /\ ncalls = 0
    /\ pythonProcess = 0
    /\ windows = {}
    /\ promise = [c \in Calls |-> "none"]
    /\ reason = [c \in Calls |-> "none"]
    /\ child = [c \in Calls |-> "none"]
    /\ timer = [c \in Calls |-> "none"]
    /\ pastDeadline = [c \in Calls |-> FALSE]
    /\ inflight = [c \in Calls |-> 0]
    /\ retry = [c \in Calls |-> 0]
    /\ markers = 0
    /\ okProbe = [c \in Calls |-> FALSE]
    /\ pc = [c \in Calls |-> "idle"]
    /\ built = {}
    /\ resolveTimers = 0
    /\ electron = "none"
    /\ bridge = "none"
    /\ serverReady = FALSE
    /\ bridgeReady = FALSE
    /\ termHandler = "none"
    /\ reported = {}
    /\ maxRetries = 0
    /\ i = 0
    /\ attempts = 0
    /\ fpc = "idle"
    /\ fetchState = "none"
    /\ outcomes = <<>>
    /\ result = 0
    /\ delays = <<>>
    /\ loadFired = FALSE
    /\ initpc = "idle"
    /\ getAttempts = 0
    /\ cpc = "idle"
    /\ clicks = 0
    /\ indicator = "none"
    /\ lastPost = "none"
    /\ lastReq = NoReq
    /\ handlers = {}
    /\ ipcReq = NoReq
    /\ ipcCall = NoIpcCall
    /\ apiCall = NoCall
    /\ invoked = <<>>
    /\ pyRun = NoPyRun
    /\ tasks = <<>>
    /\ nextId = 1
    /\ storeCall = "none"
    /\ storeRet = "none"
    /\ assigned = <<>>
    /\ response = NoResponse

\* ------------------------------------------------------- src/src/main.js

\* app.quit(): the windows are closed without 'window-all-closed' being
\* emitted, and the process ends.
AppQuit ==
    /\ appState' = "quit"
    /\ windows' = {}

\* A catch block that logs the error and does not quit.
CreateWindowCatchNoQuit(c) ==
    /\ pc' = [pc EXCEPT ![c] = "done"]
    /\ UNCHANGED <<built, appState, windows>>

\* createWindow, lines 235-242: the catch block.
CreateWindowCatch(c) ==
    /\ pc' = [pc EXCEPT ![c] = "done"]
    /\ UNCHANGED built
    /\ AppQuit

\* createWindow, lines 184-222: after `await startPythonServer()` the
\* BrowserWindow is constructed and loadFile is awaited.
CreateWindowResume(c) ==
    /\ pc' = [pc EXCEPT ![c] = "loading"]
    /\ windows' = windows \cup {c}
    /\ built' = built \cup {c}
    /\ UNCHANGED appState

\* resolve() of the promise of call c, and the awaiter's continuation.
MainResolve(c) ==
    IF promise[c] = "pending"
    THEN /\ promise' = [promise EXCEPT ![c] = "resolved"]
         /\ CreateWindowResume(c)
    ELSE UNCHANGED <<promise, pc, windows, built, appState>>

\* reject() of the promise of call c, and the awaiter's continuation.
MainReject(c) ==
    IF promise[c] = "pending"
    THEN /\ promise' = [promise EXCEPT ![c] = "rejected"]
         /\ CreateWindowCatch(c)
    ELSE UNCHANGED <<promise, pc, windows, built, appState>>

\* reject(new Error(why)) of the promise of call c: the first settlement
\* of a promise decides its reason.
RejectReason(c, why) ==
    reason' = IF promise[c] = "pending"
              THEN [reason EXCEPT ![c] = why] ELSE reason

\* A startPythonServer that spawns the server before it verifies the path.
CreateWindowSpawnsFirst(c) ==
    /\ ncalls' = c
    /\ pythonProcess' = c
    /\ IF ~scriptExists
       THEN /\ promise' = [promise EXCEPT ![c] = "rejected"]
            /\ reason' = [reason EXCEPT ![c] = "Server script not found at:"]
            /\ CreateWindowCatch(c)
            /\ UNCHANGED <<child, timer>>
       ELSE /\ promise' = [promise EXCEPT ![c] = "pending"]
            /\ UNCHANGED reason
            /\ child' = [child EXCEPT ![c] = "spawning"]
            /\ timer' = [timer EXCEPT ![c] = "armed"]
            /\ pc' = [pc EXCEPT ![c] = "awaitServer"]
            /\ appState' = "running"
            /\ UNCHANGED <<windows, built>>
    /\ UNCHANGED <<envVars, rendererVars, pageVars, ipcReq, ipcCall, preloadVars, storeVars, termHandler, reported, health, launcherVars, legacyVars, pastDeadline, inflight, retry,
                   markers, okProbe>>

\* createWindow() up to its await: startPythonServer, lines 73-146.  The
\* caller runs it with the app ready, so appState is "running" afterwards
\* unless the catch block has quit.
CreateWindow(c) ==
    /\ ncalls' = c
    /\ IF ~scriptExists
       THEN /\ promise' = [promise EXCEPT ![c] = "rejected"]
            /\ reason' = [reason EXCEPT ![c] = "Server script not found at:"]
            /\ CreateWindowCatch(c)
            /\ UNCHANGED <<pythonProcess, child, timer>>
       ELSE /\ promise' = [promise EXCEPT ![c] = "pending"]
            /\ UNCHANGED reason
            /\ pythonProcess' = c
            /\ child' = [child EXCEPT ![c] = "spawning"]
            /\ timer' = [timer EXCEPT ![c] = "armed"]
            /\ pc' = [pc EXCEPT ![c] = "awaitServer"]
            /\ appState' = "running"
            /\ UNCHANGED <<windows, built>>
    /\ UNCHANGED <<envVars, rendererVars, pageVars, ipcReq, ipcCall, preloadVars, storeVars, termHandler, reported, health, launcherVars, legacyVars, pastDeadline, inflight, retry,
                   markers, okProbe>>

\* setupIPCHandlers, lines 149-176: the channels it registers with
\* ipcMain.handle.
SetupIPCHandlers == {"tasks:fetch", "tasks:add"}

\* The channels electronAPI.tasks of the preload bridge invokes
\* (src/unnamed/part_001, lines 24-29).
BridgeChannels == {"tasks:fetch", "tasks:add", "tasks:update", "tasks:delete"}

\* app.whenReady().then(...), lines 244-250.
MainAppReady ==
    /\ program = "main"
    /\ appState = "starting"
    /\ handlers' = SetupIPCHandlers
    /\ CreateWindow(1)

\* app.on('activate'), lines 261-265 (an event of macOS).
MainActivate ==
    /\ program = "main"
    /\ appState = "running"
    /\ platform = "darwin"
    /\ ncalls < MaxCalls
    /\ windows = {}
    /\ UNCHANGED handlers
    /\ CreateWindow(ncalls + 1)

\* The server script is removed from the disk.  Only startPythonServer
\* reads fs.existsSync(scriptPath), and after the first call only 'activate'
\* calls it, so the removal is taken when an 'activate' can follow.
MainScriptRemoved ==
    /\ program = "main"
    /\ appState = "running"
    /\ platform = "darwin"
    /\ ncalls < MaxCalls
    /\ windows = {}
    /\ scriptExists
    /\ scriptExists' = FALSE
    /\ UNCHANGED <<program, platform, rendererVars, pageVars, ipcVars, reason, preloadVars, storeVars, termHandler,
                   reported, health, appState, launcherVars, legacyVars,
                   ncalls, pythonProcess, promise, child, timer, pastDeadline,
                   inflight, retry, markers, okProbe, pc, built, windows>>

\* The state of port 5000 after child c has died.
HealthAfterDeath(c) ==
    IF health = "up" /\ ~(\E d \in Calls \ {c} : child[d] \in Live)
    THEN {"down"}
    ELSE IF health = "up" THEN {"up", "down"} ELSE {health}

\* The backend of call c binds port 5000 and serves /health.
BackendListens(c) ==
    /\ appState = "running"
    /\ child[c] \in Live
    /\ health = "down"
    /\ health' = "up"
    /\ child' = [child EXCEPT ![c] = "running"]
    /\ UNCHANGED <<envVars, rendererVars, pageVars, ipcVars, reason, preloadVars, storeVars, termHandler, reported, appState, launcherVars, legacyVars, ncalls, pythonProcess, windows, built,
                   promise, timer, pastDeadline, inflight, retry, markers,
                   okProbe, pc>>

\* checkServer, lines 100-110: the GET /health request is sent.
CheckServer(c) ==
    inflight' = [inflight EXCEPT ![c] = @ + 1]

\* pythonProcess.stderr.on('data'), lines 117-135.  kind is what the chunk
\* contains: "marker" for 'Running on http://', "debug" for another of
\* debugMessages, "other" for anything else.
MainStderrData(c, kind) ==
    /\ program = "main"
    /\ appState = "running"
    /\ child[c] \in Live
    /\ child' = [child EXCEPT ![c] = "running"]
    /\ IF kind = "marker"
       THEN /\ markers < MaxChunks
            /\ markers' = markers + 1
            /\ CheckServer(c)
       ELSE UNCHANGED <<markers, inflight>>
    /\ UNCHANGED <<envVars, rendererVars, pageVars, ipcVars, reason, preloadVars, storeVars, termHandler, reported, health, appState, launcherVars, legacyVars, ncalls, pythonProcess,
                   windows, built, promise, timer, pastDeadline, retry, okProbe, pc>>

\* The .then / .catch of fetch in checkServer, lines 102-109: fetch fulfils
\* on every HTTP response, whatever its status, and rejects on a network
\* error.
MainProbeCompletes(c) ==
    /\ program = "main"
    /\ appState = "running"
    /\ inflight[c] > 0
    /\ inflight' = [inflight EXCEPT ![c] = @ - 1]
    /\ okProbe' = [okProbe EXCEPT ![c] = @ \/ health = "up"]
    /\ IF health = "down"
       THEN /\ retry' = [retry EXCEPT ![c] = @ + 1]
            /\ UNCHANGED <<promise, pc, windows, built, appState>>
       ELSE /\ MainResolve(c)
            /\ UNCHANGED retry
    /\ UNCHANGED <<envVars, rendererVars, pageVars, ipcVars, reason, preloadVars, storeVars, termHandler, reported, health, launcherVars, legacyVars, ncalls, pythonProcess, child,
                   timer, pastDeadline, markers>>

\* The timer of setTimeout(checkServer, 1000), line 108, fires.
MainRetryFires(c) ==
    /\ program = "main"
    /\ appState = "running"
    /\ retry[c] > 0
    /\ retry' = [retry EXCEPT ![c] = @ - 1]
    /\ CheckServer(c)
    /\ UNCHANGED <<envVars, rendererVars, pageVars, ipcVars, reason, preloadVars, storeVars, termHandler, reported, health, appState, launcherVars, legacyVars, ncalls, pythonProcess,
                   windows, built, promise, child, timer, pastDeadline, markers,
                   okProbe, pc>>

\* The readiness deadline of call c elapses; the startup timer, lines
\* 141-144, is never cleared and fires then.
MainDeadlineElapses(c) ==
    /\ program = "main"
    /\ appState = "running"
    /\ timer[c] = "armed"
    /\ \A d \in Calls : d < c => timer[d] # "armed"
    /\ timer' = [timer EXCEPT ![c] = "fired"]
    /\ pastDeadline' = [pastDeadline EXCEPT ![c] = TRUE]
    /\ MainReject(c)
    /\ RejectReason(c, "Server startup timeout")
    /\ UNCHANGED <<envVars, rendererVars, pageVars, ipcVars, preloadVars, storeVars, termHandler, reported, health, launcherVars, legacyVars, ncalls, pythonProcess, child,
                   inflight, retry, markers, okProbe>>

\* pythonProcess.on('error'), lines 137-139: the spawn failed.
MainSpawnError(c) ==
    /\ program = "main"
    /\ appState = "running"
    /\ child[c] = "spawning"
    /\ child' = [child EXCEPT ![c] = "errored"]
    /\ MainReject(c)
    /\ RejectReason(c, "Failed to start Python server:")
    /\ UNCHANGED <<envVars, rendererVars, pageVars, ipcVars, preloadVars, storeVars, termHandler, reported, health, launcherVars, legacyVars, ncalls, pythonProcess, timer,
                   pastDeadline, inflight, retry, markers, okProbe>>

\* The child of call c exits; main.js registers no 'exit' handler.
MainChildExits(c) ==
    /\ program = "main"
    /\ appState = "running"
    /\ child[c] \in Live
    /\ child' = [child EXCEPT ![c] = "exited"]
    /\ health' \in HealthAfterDeath(c)
    /\ UNCHANGED <<envVars, rendererVars, pageVars, ipcVars, reason, preloadVars, storeVars, termHandler, reported, appState, launcherVars, legacyVars, ncalls, pythonProcess, windows, built,
                   promise, timer, pastDeadline, inflight, retry, markers,
                   okProbe, pc>>

\* `await mainWindow.loadFile(indexPath)` settles, lines 221-233.
MainLoadFileDone(c, ok) ==
    /\ program = "main"
    /\ appState = "running"
    /\ pc[c] = "loading"
    /\ IF ok
       THEN /\ pc' = [pc EXCEPT ![c] = "shown"]
            /\ UNCHANGED <<windows, built, appState>>
       ELSE CreateWindowCatch(c)
    /\ UNCHANGED <<envVars, rendererVars, pageVars, ipcVars, reason, preloadVars, storeVars, termHandler, reported, health, launcherVars, legacyVars, ncalls, pythonProcess, promise,
                   child, timer, pastDeadline, inflight, retry, markers,
                   okProbe>>

\* pythonProcess.kill() on the handle h (0 = null: no kill).
KillHandle(h) ==
    IF h # 0 /\ child[h] \in Live
    THEN /\ child' = [child EXCEPT ![h] = "killed"]
         /\ health' \in HealthAfterDeath(h)
    ELSE UNCHANGED <<child, health>>

\* The user closes the window of call c; when it was the last one,
\* app.on('window-all-closed'), lines 252-259, runs.
MainCloseWindow(c) ==
    /\ program = "main"
    /\ appState = "running"
    /\ c \in windows
    /\ pc[c] = "shown"
    /\ IF windows = {c}
       THEN /\ KillHandle(pythonProcess)
            /\ IF platform # "darwin"
               THEN AppQuit
               ELSE /\ windows' = {}
                    /\ UNCHANGED appState
       ELSE /\ windows' = windows \ {c}
            /\ UNCHANGED <<child, health, appState>>
    /\ UNCHANGED <<envVars, rendererVars, pageVars, ipcVars, reason, preloadVars, storeVars, termHandler, reported, launcherVars, legacyVars, ncalls, pythonProcess,
                   promise, timer, pastDeadline, inflight, retry, markers,
                   okProbe, pc, built>>

\* The user quits the application (Cmd+Q, the menu): app.quit() closes the
\* windows without emitting 'window-all-closed', and main.js registers no
\* 'before-quit' / 'will-quit' handler (its app handlers: lines 244-265).
MainUserQuit ==
    /\ program = "main"
    /\ appState = "running"
    /\ AppQuit
    /\ UNCHANGED <<envVars, rendererVars, pageVars, ipcVars, reason, preloadVars, storeVars, termHandler, reported, health, launcherVars, legacyVars, ncalls,
                   pythonProcess, promise, child, timer, pastDeadline,
                   inflight, retry, markers, okProbe, pc, built>>

\* A window of the application is shown: its page can invoke the IPC
\* channels.
WindowShown == \E c \in windows : pc[c] = "shown"

\* The handlers of the task channels read and write nothing of the
\* supervisor, on any platform; their invocations are followed in the runs
\* without 'activate', where one window is created.
IpcFollowed == platform # "darwin"

\* ipcMain.handle('tasks:fetch'), lines 151-159: one fetch of GET /tasks.
MainTasksFetch ==
    /\ program = "main"
    /\ appState = "running"
    /\ WindowShown
    /\ "tasks:fetch" \in handlers
    /\ IpcFollowed
    /\ ipcCall.state # "pending"
    /\ ipcReq' = [method |-> "GET", origin |-> "ipc", title |-> <<>>,
                  ready |-> FALSE]
    /\ ipcCall' = [NoIpcCall EXCEPT !.channel = "tasks:fetch",
                                    !.state = "pending"]
    /\ UNCHANGED <<envVars, rendererVars, pageVars, handlers, reason, preloadVars, storeVars, termHandler,
                   reported, health, appState, launcherVars, legacyVars,
                   ncalls, pythonProcess, windows, built, promise, child,
                   timer, pastDeadline, inflight, retry, markers, okProbe, pc>>

\* The titles the renderer passes to the 'tasks:add' channel: empty,
\* whitespace-only and not blank.
IpcTitles == {<<>>, <<" ">>, <<"a">>}

\* ipcMain.handle('tasks:add'), lines 161-173: one fetch of POST /tasks
\* whose body is JSON.stringify(taskData); t is taskData.title.
MainTasksAdd(t) ==
    /\ program = "main"
    /\ appState = "running"
    /\ WindowShown
    /\ "tasks:add" \in handlers
    /\ IpcFollowed
    /\ ipcCall.state # "pending"
    /\ ipcReq' = [method |-> "POST", origin |-> "ipc", title |-> t,
                  ready |-> FALSE]
    /\ ipcCall' = [NoIpcCall EXCEPT !.channel = "tasks:add",
                                    !.state = "pending"]
    /\ UNCHANGED <<envVars, rendererVars, pageVars, handlers, reason, preloadVars, storeVars, termHandler,
                   reported, health, appState, launcherVars, legacyVars,
                   ncalls, pythonProcess, windows, built, promise, child,
                   timer, pastDeadline, inflight, retry, markers, okProbe, pc>>

\* The error fetch rejects with.
FetchErrors == {"TypeError: fetch failed"}

\* logToFile(level, message), lines 34-43: the entries appended to the log
\* file and the lines written with console.error, when the log file can be
\* written and when fs.appendFileSync throws.
LogToFile(level, message, writable) ==
    IF writable
    THEN [entries |-> <<[level |-> level, message |-> message]>>,
          console |-> <<>>]
    ELSE [entries |-> <<>>, console |-> <<"Failed to write to log file:">>]

\* A catch block that logs and returns undefined.
IpcCatchSwallows(channel, e, writable) ==
    [channel |-> channel, state |-> "resolved", error |-> "none",
     entries |-> LogToFile("error", [operation |-> channel, error |-> e],
                           writable).entries,
     console |-> LogToFile("error", [operation |-> channel, error |-> e],
                           writable).console]

\* The catch block of the handlers, lines 155-158 and 169-172:
\* logToFile('error', {operation, error: error.toString()}); throw error.
IpcCatch(channel, e, writable) ==
    [channel |-> channel, state |-> "rejected", error |-> e,
     entries |-> LogToFile("error", [operation |-> channel, error |-> e],
                           writable).entries,
     console |-> LogToFile("error", [operation |-> channel, error |-> e],
                           writable).console]

\* The fetch of the pending handler rejects with e: its await throws and
\* the catch block runs.
MainIpcFetchRejects(e, writable) ==
    /\ program = "main"
    /\ appState = "running"
    /\ ipcCall.state = "pending"
    /\ ipcCall' = IpcCatch(ipcCall.channel, e, writable)
    /\ UNCHANGED <<envVars, rendererVars, pageVars, handlers, ipcReq, reason, preloadVars, storeVars, termHandler,
                   reported, health, appState, launcherVars, legacyVars,
                   ncalls, pythonProcess, windows, built, promise, child,
                   timer, pastDeadline, inflight, retry, markers, okProbe, pc>>

\* The fetch of the pending handler fulfils with a response, of any
\* status: the handler returns response.json(), which is not awaited in
\* the try block, so that the invocation settles as that promise does,
\* with the parsed body or with the SyntaxError of a body that is not
\* JSON, and the catch block does not run.
MainIpcFetchFulfils(json) ==
    /\ program = "main"
    /\ appState = "running"
    /\ ipcCall.state = "pending"
    /\ ipcCall' = [ipcCall EXCEPT
                      !.state = IF json THEN "resolved" ELSE "rejected",
                      !.error = IF json THEN "none" ELSE "SyntaxError"]
    /\ UNCHANGED <<envVars, rendererVars, pageVars, handlers, ipcReq, reason, preloadVars, storeVars, termHandler,
                   reported, health, appState, launcherVars, legacyVars,
                   ncalls, pythonProcess, windows, built, promise, child,
                   timer, pastDeadline, inflight, retry, markers, okProbe, pc>>

MainNext ==
    \/ MainAppReady
    \/ MainActivate
    \/ MainScriptRemoved
    \/ \E c \in Calls : (program = "main" /\ BackendListens(c))
    \/ \E c \in Calls, kind \in {"marker", "debug", "other"} : MainStderrData(c, kind)
    \/ \E c \in Calls : MainProbeCompletes(c)
    \/ \E c \in Calls : MainRetryFires(c)
    \/ \E c \in Calls : MainDeadlineElapses(c)
    \/ \E c \in Calls : MainSpawnError(c)
    \/ \E c \in Calls : MainChildExits(c)
    \/ \E c \in Calls, ok \in BOOLEAN : MainLoadFileDone(c, ok)
    \/ \E c \in Calls : MainCloseWindow(c)
    \/ MainUserQuit
    \/ MainTasksFetch
    \/ \E t \in IpcTitles : MainTasksAdd(t)
    \/ \E e \in FetchErrors, writable \in BOOLEAN : MainIpcFetchRejects(e, writable)
    \/ \E json \in BOOLEAN : MainIpcFetchFulfils(json)

\* ------------------------------------------- src/src/start.js, 59-238

\* clearTimeout(startupTimeout), lines 138, 151, 170.
ClearStartupTimeout ==
    timer' = [timer EXCEPT ![1] = IF @ = "armed" THEN "cleared" ELSE @]

\* start, lines 206-210: after `await startPythonServer()` Electron is
\* spawned; startElectron, lines 177-199, resolves at once.
StartResume ==
    /\ pc' = [pc EXCEPT ![1] = "started"]
    /\ electron' = "running"
    /\ UNCHANGED <<appState, exitCode>>

\* The child of the launcher after the event being handled: still as it
\* was (dead = "none"), or dead ("errored", "exited").
ChildAfter(dead) ==
    /\ child' = [child EXCEPT ![1] = IF dead = "none" THEN @ ELSE dead]
    /\ health' \in (IF dead = "none" THEN {health} ELSE HealthAfterDeath(1))

\* start, lines 211-219: the catch block kills pythonProcess and exits
\* with code 1.
StartCatch(dead) ==
    /\ pc' = [pc EXCEPT ![1] = "done"]
    /\ IF dead = "none" THEN KillHandle(pythonProcess) ELSE ChildAfter(dead)
    /\ appState' = "quit"
    /\ exitCode' = 1
    /\ UNCHANGED electron

\* resolve() of the launcher's promise, and the awaiter's continuation.
LauncherResolve ==
    IF promise[1] = "pending"
    THEN /\ promise' = [promise EXCEPT ![1] = "resolved"]
         /\ StartResume
         /\ UNCHANGED <<child, health>>
    ELSE UNCHANGED <<promise, pc, electron, appState, exitCode, child, health>>

\* reject() of the launcher's promise, and the awaiter's continuation.
LauncherReject(dead) ==
    IF promise[1] = "pending"
    THEN /\ promise' = [promise EXCEPT ![1] = "rejected"]
         /\ StartCatch(dead)
    ELSE /\ ChildAfter(dead)
         /\ UNCHANGED <<promise, pc, electron, appState, exitCode>>

\* start() up to its await: startPythonServer, lines 92-132.
LauncherStart ==
    /\ program = "launcher"
    /\ appState = "starting"
    /\ appState' = "running"
    /\ ncalls' = 1
    /\ pythonProcess' = 1
    /\ promise' = [promise EXCEPT ![1] = "pending"]
    /\ child' = [child EXCEPT ![1] = "spawning"]
    /\ timer' = [timer EXCEPT ![1] = "armed"]
    /\ pc' = [pc EXCEPT ![1] = "awaitServer"]
    /\ UNCHANGED <<envVars, rendererVars, pageVars, ipcVars, reason, preloadVars, storeVars, termHandler, reported, health, launcherVars, legacyVars, windows, built,
                   pastDeadline, inflight, retry, markers, okProbe>>

\* pythonProcess.stdout.on('data'), lines 134-142; "marker" is a chunk
\* with 'Listening at: http://localhost:5000'.
LauncherStdoutData(kind) ==
    /\ program = "launcher"
    /\ appState = "running"
    /\ child[1] \in Live
    /\ child' = [child EXCEPT ![1] = "running"]
    /\ IF kind = "marker"
       THEN /\ markers < MaxChunks
            /\ markers' = markers + 1
            /\ ClearStartupTimeout
            /\ resolveTimers' = resolveTimers + 1
       ELSE UNCHANGED <<markers, timer, resolveTimers>>
    /\ UNCHANGED <<envVars, rendererVars, pageVars, ipcVars, reason, preloadVars, storeVars, termHandler, reported, health, appState, exitCode, electron, legacyVars,
                   ncalls, pythonProcess, windows, built, promise,
                   pastDeadline, inflight, retry, okProbe, pc>>

\* pythonProcess.stderr.on('data'), lines 144-156; "marker" is a chunk
\* with 'Booting worker with pid:'.
LauncherStderrData(kind) ==
    /\ program = "launcher"
    /\ appState = "running"
    /\ child[1] \in Live
    /\ child' = [child EXCEPT ![1] = "running"]
    /\ IF kind = "marker"
       THEN /\ markers < MaxChunks
            /\ markers' = markers + 1
            /\ CheckServer(1)
       ELSE UNCHANGED <<markers, inflight>>
    /\ UNCHANGED <<envVars, rendererVars, pageVars, ipcVars, reason, preloadVars, storeVars, termHandler, reported, health, appState, launcherVars, legacyVars, ncalls,
                   pythonProcess, windows, built, promise, timer,
                   pastDeadline, retry, okProbe, pc>>

\* The .then / .catch of the fetch of lines 149-154.
LauncherProbeCompletes ==
    /\ program = "launcher"
    /\ appState = "running"
    /\ inflight[1] > 0
    /\ inflight' = [inflight EXCEPT ![1] = @ - 1]
    /\ okProbe' = [okProbe EXCEPT ![1] = @ \/ health = "up"]
    /\ IF health = "down"
       THEN UNCHANGED <<timer, promise, pc, electron, appState, exitCode,
                        child, health>>
       ELSE /\ ClearStartupTimeout
            /\ LauncherResolve
    /\ UNCHANGED <<envVars, rendererVars, pageVars, ipcVars, reason, preloadVars, storeVars, termHandler, reported, resolveTimers, legacyVars, ncalls, pythonProcess,
                   windows, built, pastDeadline, retry, markers>>

\* The timer of setTimeout(resolve, 1000), line 140, fires.
LauncherResolveFires ==
    /\ program = "launcher"
    /\ appState = "running"
    /\ resolveTimers > 0
    /\ resolveTimers' = resolveTimers - 1
    /\ LauncherResolve
    /\ UNCHANGED <<envVars, rendererVars, pageVars, ipcVars, reason, preloadVars, storeVars, termHandler, reported, legacyVars, ncalls, pythonProcess, windows, built,
                   timer, pastDeadline, inflight, retry, markers, okProbe>>

\* The readiness deadline elapses; startupTimeout, lines 130-132, fires
\* then unless it was cleared.
LauncherDeadlineElapses ==
    /\ program = "launcher"
    /\ appState = "running"
    /\ ~pastDeadline[1]
    /\ pastDeadline' = [pastDeadline EXCEPT ![1] = TRUE]
    /\ IF timer[1] = "armed"
       THEN /\ timer' = [timer EXCEPT ![1] = "fired"]
            /\ LauncherReject("none")
       ELSE UNCHANGED <<timer, promise, pc, electron, appState, exitCode,
                        child, health>>
    /\ UNCHANGED <<envVars, rendererVars, pageVars, ipcVars, reason, preloadVars, storeVars, termHandler, reported, resolveTimers, legacyVars, ncalls, pythonProcess,
                   windows, built, inflight, retry, markers, okProbe>>

\* pythonProcess.on('error'), lines 158-166: the spawn failed.
LauncherSpawnError ==
    /\ program = "launcher"
    /\ appState = "running"
    /\ child[1] = "spawning"
    /\ LauncherReject("errored")
    /\ UNCHANGED <<envVars, rendererVars, pageVars, ipcVars, reason, preloadVars, storeVars, termHandler, reported, resolveTimers, legacyVars, ncalls, pythonProcess,
                   windows, built, timer, pastDeadline, inflight, retry,
                   markers, okProbe>>

\* pythonProcess.on('exit'), lines 168-173; code is the exit code.  The
\* exit reaches the shell when the reject settles the promise: the catch
\* block of start logs it and exits.
LauncherChildExits(code) ==
    /\ program = "launcher"
    /\ appState = "running"
    /\ child[1] \in Live
    /\ IF code # 0
       THEN /\ ClearStartupTimeout
            /\ LauncherReject("exited")
       ELSE /\ child' = [child EXCEPT ![1] = "exited"]
            /\ health' \in HealthAfterDeath(1)
            /\ UNCHANGED <<timer, promise, pc, electron, appState, exitCode>>
    /\ reported' = IF code # 0 /\ promise[1] = "pending"
                   THEN reported \cup {1} ELSE reported
    /\ UNCHANGED <<envVars, rendererVars, pageVars, ipcVars, reason, preloadVars, storeVars, termHandler, resolveTimers, legacyVars, ncalls, pythonProcess,
                   windows, built, pastDeadline, inflight, retry, markers,
                   okProbe>>

\* electronProcess.on('exit') / .on('error'), lines 187-195: they reject the
\* promise of startElectron, which line 197 has resolved already.
LauncherElectronEnds(how) ==
    /\ program = "launcher"
    /\ appState = "running"
    /\ electron = "running"
    /\ electron' = how
    /\ UNCHANGED <<envVars, rendererVars, pageVars, ipcVars, reason, preloadVars, storeVars, termHandler, reported, health, appState, exitCode, resolveTimers,
                   legacyVars, ncalls, pythonProcess, windows, built, promise,
                   child, timer, pastDeadline, inflight, retry, markers,
                   okProbe, pc>>

\* The launcher receives SIGTERM.  This revision registers no handler for
\* 'SIGTERM' and none for 'exit' (its process handlers: lines 222-236), so
\* the signal ends the process at once.
LauncherSigterm ==
    /\ program = "launcher"
    /\ appState = "running"
    /\ appState' = "quit"
    /\ termHandler' = "default"
    /\ UNCHANGED <<envVars, rendererVars, pageVars, ipcVars, reason, preloadVars, storeVars, reported, health, launcherVars, legacyVars, ncalls,
                   pythonProcess, windows, built, promise, child, timer,
                   pastDeadline, inflight, retry, markers, okProbe, pc>>

LauncherNext ==
    \/ LauncherStart
    \/ (program = "launcher" /\ BackendListens(1))
    \/ \E kind \in {"marker", "other"} : LauncherStdoutData(kind)
    \/ \E kind \in {"marker", "other"} : LauncherStderrData(kind)
    \/ LauncherProbeCompletes
    \/ LauncherResolveFires
    \/ LauncherDeadlineElapses
    \/ LauncherSpawnError
    \/ \E code \in {0, 1} : LauncherChildExits(code)
    \/ \E how \in {"exited", "errored"} : LauncherElectronEnds(how)
    \/ LauncherSigterm

\* ------------------------------------------------ src/unnamed/part_002

\* createWindow, lines 107-121, run by app.whenReady().then, lines 123-126:
\* startBackendProcesses, lines 14-98, spawns the server and the bridge,
\* and the BrowserWindow is constructed right after.
LegacyCreateWindow ==
    /\ program = "legacy"
    /\ appState = "starting"
    /\ appState' = "running"
    /\ ncalls' = 1
    /\ pythonProcess' = 1
    /\ child' = [child EXCEPT ![1] = "spawning"]
    /\ bridge' = "spawning"
    /\ windows' = {1}
    /\ built' = {1}
    /\ pc' = [pc EXCEPT ![1] = "shown"]
    /\ UNCHANGED <<envVars, rendererVars, pageVars, ipcVars, reason, preloadVars, storeVars, termHandler, reported, health, launcherVars, serverReady, bridgeReady,
                   promise, timer, pastDeadline, inflight, retry, markers,
                   okProbe>>

\* serverProcess.stdout.on('data'), lines 46-53; "marker" is a chunk with
\* 'Running on'.
LegacyServerStdout(kind) ==
    /\ program = "legacy"
    /\ appState = "running"
    /\ child[1] \in Live
    /\ child' = [child EXCEPT ![1] = "running"]
    /\ IF kind = "marker"
       THEN /\ markers < MaxChunks
            /\ markers' = markers + 1
            /\ serverReady' = TRUE
       ELSE UNCHANGED <<markers, serverReady>>
    /\ UNCHANGED <<envVars, rendererVars, pageVars, ipcVars, reason, preloadVars, storeVars, termHandler, reported, health, appState, launcherVars, bridge,
                   bridgeReady, ncalls, pythonProcess, windows, built, promise,
                   timer, pastDeadline, inflight, retry, okProbe, pc>>

\* bridgeProcess.stdout.on('data'), lines 66-72: a chunk with 'Bridge ready'.
LegacyBridgeReady ==
    /\ program = "legacy"
    /\ appState = "running"
    /\ bridge \in Live
    /\ ~bridgeReady
    /\ bridge' = "running"
    /\ bridgeReady' = TRUE
    /\ UNCHANGED <<envVars, rendererVars, pageVars, ipcVars, reason, preloadVars, storeVars, termHandler, reported, health, appState, launcherVars, serverReady,
                   ncalls, pythonProcess, windows, built, promise, child,
                   timer, pastDeadline, inflight, retry, markers, okProbe, pc>>

\* The server child fails to spawn ('error' handler, lines 39-41: a log
\* line) or exits (no handler).
LegacyServerEnds(how) ==
    /\ program = "legacy"
    /\ appState = "running"
    /\ child[1] \in (IF how = "errored" THEN {"spawning"} ELSE Live)
    /\ child' = [child EXCEPT ![1] = how]
    /\ health' \in HealthAfterDeath(1)
    /\ UNCHANGED <<envVars, rendererVars, pageVars, ipcVars, reason, preloadVars, storeVars, termHandler, reported, appState, launcherVars, legacyVars, ncalls,
                   pythonProcess, windows, built, promise, timer,
                   pastDeadline, inflight, retry, markers, okProbe, pc>>

\* The bridge child exits (no handler).
LegacyBridgeExits ==
    /\ program = "legacy"
    /\ appState = "running"
    /\ bridge \in Live
    /\ bridge' = "exited"
    /\ UNCHANGED <<envVars, rendererVars, pageVars, ipcVars, reason, preloadVars, storeVars, termHandler, reported, health, appState, launcherVars, serverReady,
                   bridgeReady, ncalls, pythonProcess, windows, built, promise,
                   child, timer, pastDeadline, inflight, retry, markers,
                   okProbe, pc>>

\* app.on('before-quit'), lines 100-105: both children are killed.
LegacyBeforeQuit ==
    /\ KillHandle(pythonProcess)
    /\ bridge' = IF bridge \in Live THEN "killed" ELSE bridge

\* The user closes the window: app.on('window-all-closed'), lines 128-133,
\* quits except on macOS.
LegacyCloseWindow ==
    /\ program = "legacy"
    /\ appState = "running"
    /\ windows = {1}
    /\ windows' = {}
    /\ IF platform # "darwin"
       THEN /\ LegacyBeforeQuit
            /\ appState' = "quit"
       ELSE UNCHANGED <<child, health, bridge, appState>>
    /\ UNCHANGED <<envVars, rendererVars, pageVars, ipcVars, reason, preloadVars, storeVars, termHandler, reported, launcherVars, serverReady, bridgeReady, ncalls,
                   pythonProcess, built, promise, timer, pastDeadline,
                   inflight, retry, markers, okProbe, pc>>

\* The user quits the application (Cmd+Q, the menu).
LegacyUserQuit ==
    /\ program = "legacy"
    /\ appState = "running"
    /\ LegacyBeforeQuit
    /\ AppQuit
    /\ UNCHANGED <<envVars, rendererVars, pageVars, ipcVars, reason, preloadVars, storeVars, termHandler, reported, launcherVars, serverReady, bridgeReady, ncalls,
                   pythonProcess, built, promise, timer, pastDeadline,
                   inflight, retry, markers, okProbe, pc>>

LegacyNext ==
    \/ LegacyCreateWindow
    \/ (program = "legacy" /\ BackendListens(1))
    \/ \E kind \in {"marker", "other"} : LegacyServerStdout(kind)
    \/ LegacyBridgeReady
    \/ \E how \in {"errored", "exited"} : LegacyServerEnds(how)
    \/ LegacyBridgeExits
    \/ LegacyCloseWindow
    \/ LegacyUserQuit

\* ------------------------------------- src/src/logging_format.md, 88-182
\* An earlier revision of the launcher, kept in the logging guide.

\* reject() of the promise, and the .catch of lines 175-178:
\* process.exit(1).
DocReject ==
    IF promise[1] = "pending"
    THEN /\ promise' = [promise EXCEPT ![1] = "rejected"]
         /\ pc' = [pc EXCEPT ![1] = "done"]
         /\ appState' = "quit"
         /\ exitCode' = 1
         /\ UNCHANGED electron
    ELSE UNCHANGED <<promise, pc, appState, exitCode, electron>>

\* resolve() of the promise, and the .then of lines 172-175:
\* startElectron, lines 106-129, spawns Electron.
DocResolve ==
    IF promise[1] = "pending"
    THEN /\ promise' = [promise EXCEPT ![1] = "resolved"]
         /\ pc' = [pc EXCEPT ![1] = "started"]
         /\ electron' = "running"
         /\ UNCHANGED <<appState, exitCode>>
    ELSE UNCHANGED <<promise, pc, appState, exitCode, electron>>

\* The startup block, lines 171-182, up to the promise: startPythonServer,
\* lines 131-169, spawns gunicorn and sets no timer.
DocStart ==
    /\ program = "doc"
    /\ appState = "starting"
    /\ appState' = "running"
    /\ ncalls' = 1
    /\ pythonProcess' = 1
    /\ promise' = [promise EXCEPT ![1] = "pending"]
    /\ child' = [child EXCEPT ![1] = "spawning"]
    /\ pc' = [pc EXCEPT ![1] = "awaitServer"]
    /\ UNCHANGED <<envVars, rendererVars, pageVars, ipcVars, reason, preloadVars, storeVars, termHandler, reported, health, launcherVars, legacyVars, windows, built,
                   timer, pastDeadline, inflight, retry, markers, okProbe>>

\* pythonProcess.stdout.on('data'), lines 159-163; "marker" is a chunk
\* with 'Booting worker with pid'.
DocStdoutData(kind) ==
    /\ program = "doc"
    /\ appState = "running"
    /\ child[1] \in Live
    /\ child' = [child EXCEPT ![1] = "running"]
    /\ IF kind = "marker"
       THEN /\ markers < MaxChunks
            /\ markers' = markers + 1
            /\ DocResolve
       ELSE UNCHANGED <<markers, promise, pc, appState, exitCode, electron>>
    /\ UNCHANGED <<envVars, rendererVars, pageVars, ipcVars, reason, preloadVars, storeVars, termHandler, reported, health, resolveTimers, legacyVars, ncalls,
                   pythonProcess, windows, built, timer, pastDeadline,
                   inflight, retry, okProbe>>

\* pythonProcess.on('error'), lines 154-157: the spawn failed.
DocSpawnError ==
    /\ program = "doc"
    /\ appState = "running"
    /\ child[1] = "spawning"
    /\ child' = [child EXCEPT ![1] = "errored"]
    /\ DocReject
    /\ UNCHANGED <<envVars, rendererVars, pageVars, ipcVars, reason, preloadVars, storeVars, termHandler, reported, health, resolveTimers, legacyVars, ncalls,
                   pythonProcess, windows, built, timer, pastDeadline,
                   inflight, retry, markers, okProbe>>

\* The child exits; this revision registers no 'exit' handler.
DocChildExits ==
    /\ program = "doc"
    /\ appState = "running"
    /\ child[1] \in Live
    /\ child' = [child EXCEPT ![1] = "exited"]
    /\ health' \in HealthAfterDeath(1)
    /\ UNCHANGED <<envVars, rendererVars, pageVars, ipcVars, reason, preloadVars, storeVars, termHandler, reported, appState, launcherVars, legacyVars, ncalls,
                   pythonProcess, windows, built, promise, timer,
                   pastDeadline, inflight, retry, markers, okProbe, pc>>

\* The readiness deadline elapses; this revision has set no timer.
DocDeadlineElapses ==
    /\ program = "doc"
    /\ appState = "running"
    /\ ~pastDeadline[1]
    /\ pastDeadline' = [pastDeadline EXCEPT ![1] = TRUE]
    /\ UNCHANGED <<envVars, rendererVars, pageVars, ipcVars, reason, preloadVars, storeVars, termHandler, reported, health, appState, launcherVars, legacyVars, ncalls,
                   pythonProcess, windows, built, promise, child, timer,
                   inflight, retry, markers, okProbe, pc>>

\* The launcher receives SIGTERM.  startElectron registers the handlers of
\* lines 120-128; both call serverProcess.kill() first, and serverProcess
\* is the constant null of line 103: the handler throws a TypeError, the
\* process ends with an uncaught exception, and neither pythonProcess nor
\* electronProcess is killed.  Before startElectron has run there is no
\* handler and the signal ends the process.
DocSigterm ==
    /\ program = "doc"
    /\ appState = "running"
    /\ appState' = "quit"
    /\ IF pc[1] = "started"
       THEN /\ termHandler' = "threw"
            /\ exitCode' = 1
       ELSE /\ termHandler' = "default"
            /\ UNCHANGED exitCode
    /\ UNCHANGED <<envVars, rendererVars, pageVars, ipcVars, reason, preloadVars, storeVars, reported, health, resolveTimers, electron,
                   legacyVars, ncalls, pythonProcess, windows, built, promise,
                   child, timer, pastDeadline, inflight, retry, markers,
                   okProbe, pc>>

\* The Electron child ends.  'error', lines 113-117: serverProcess is null,
\* so there is no kill, and process.exit(1) emits 'exit', whose handler,
\* lines 125-128, throws.  An exit of Electron has no handler.
DocElectronEnds(how) ==
    /\ program = "doc"
    /\ appState = "running"
    /\ electron = "running"
    /\ electron' = how
    /\ IF how = "errored"
       THEN /\ appState' = "quit"
            /\ exitCode' = 1
            /\ termHandler' = "threw"
       ELSE UNCHANGED <<appState, exitCode, termHandler>>
    /\ UNCHANGED <<envVars, rendererVars, pageVars, ipcVars, reason, preloadVars, storeVars, reported, health, resolveTimers, legacyVars,
                   ncalls, pythonProcess, windows, built, promise, child,
                   timer, pastDeadline, inflight, retry, markers, okProbe, pc>>

DocNext ==
    \/ DocStart
    \/ (program = "doc" /\ BackendListens(1))
    \/ \E kind \in {"marker", "other"} : DocStdoutData(kind)
    \/ DocSpawnError
    \/ DocChildExits
    \/ DocDeadlineElapses
    \/ DocSigterm
    \/ \E how \in {"exited", "errored"} : DocElectronEnds(how)

\* ---------------------------------------------- src/src/start.js, 1-57
\* The first launcher script: it spawns the server and Electron together.

\* electronProcess.kill(), lines 36 and 41.
KillElectron ==
    electron' = IF electron = "running" THEN "killed" ELSE electron

\* process.on('exit'), lines 39-42, run by process.exit(code) or by the
\* end of the event loop: both children are killed.
FirstExit(code) ==
    /\ KillElectron
    /\ appState' = "quit"
    /\ exitCode' = code
    /\ termHandler' = "handled"

\* The startup block, lines 45-57: the server is spawned, and startElectron,
\* lines 20-43, spawns Electron right after and registers the handlers.
FirstStart ==
    /\ program = "first"
    /\ appState = "starting"
    /\ appState' = "running"
    /\ ncalls' = 1
    /\ pythonProcess' = 1
    /\ child' = [child EXCEPT ![1] = "spawning"]
    /\ electron' = "running"
    /\ pc' = [pc EXCEPT ![1] = "started"]
    /\ UNCHANGED <<envVars, rendererVars, pageVars, ipcVars, reason, preloadVars, storeVars, termHandler, reported, health, exitCode,
                   resolveTimers, legacyVars, windows, built, promise, timer,
                   pastDeadline, inflight, retry, markers, okProbe>>

\* serverProcess.on('error'), lines 47-50: process.exit(1).
FirstServerError ==
    /\ program = "first"
    /\ appState = "running"
    /\ child[1] = "spawning"
    /\ child' = [child EXCEPT ![1] = "errored"]
    /\ FirstExit(1)
    /\ UNCHANGED <<envVars, rendererVars, pageVars, ipcVars, reason, preloadVars, storeVars, reported, health, resolveTimers, legacyVars,
                   ncalls, pythonProcess, windows, built, promise, timer,
                   pastDeadline, inflight, retry, markers, okProbe, pc>>

\* electronProcess.on('error'), lines 27-31: the server is killed and
\* process.exit(1) runs the 'exit' handler.
FirstElectronError ==
    /\ program = "first"
    /\ appState = "running"
    /\ electron = "running"
    /\ KillHandle(pythonProcess)
    /\ electron' = "errored"
    /\ appState' = "quit"
    /\ exitCode' = 1
    /\ termHandler' = "handled"
    /\ UNCHANGED <<envVars, rendererVars, pageVars, ipcVars, reason, preloadVars, storeVars, reported, resolveTimers, legacyVars, ncalls,
                   pythonProcess, windows, built, promise, timer,
                   pastDeadline, inflight, retry, markers, okProbe, pc>>

\* process.on('SIGTERM'), lines 34-37: both children are killed; with a
\* handler registered the signal does not end the process.
FirstSigterm ==
    /\ program = "first"
    /\ appState = "running"
    /\ termHandler = "none"
    /\ KillHandle(pythonProcess)
    /\ KillElectron
    /\ termHandler' = "handled"
    /\ UNCHANGED <<envVars, rendererVars, pageVars, ipcVars, reason, preloadVars, storeVars, reported, appState, exitCode, resolveTimers,
                   legacyVars, ncalls, pythonProcess, windows, built, promise,
                   timer, pastDeadline, inflight, retry, markers, okProbe, pc>>

\* The server child exits (no handler).
FirstServerExits ==
    /\ program = "first"
    /\ appState = "running"
    /\ child[1] \in Live
    /\ child' = [child EXCEPT ![1] = "exited"]
    /\ health' \in HealthAfterDeath(1)
    /\ UNCHANGED <<envVars, rendererVars, pageVars, ipcVars, reason, preloadVars, storeVars, termHandler, reported, appState, launcherVars,
                   legacyVars, ncalls, pythonProcess, windows, built, promise,
                   timer, pastDeadline, inflight, retry, markers, okProbe, pc>>

\* The Electron child exits (no handler).
FirstElectronExits ==
    /\ program = "first"
    /\ appState = "running"
    /\ electron = "running"
    /\ electron' = "exited"
    /\ UNCHANGED <<envVars, rendererVars, pageVars, ipcVars, reason, preloadVars, storeVars, termHandler, reported, health, appState,
                   exitCode, resolveTimers, legacyVars, ncalls, pythonProcess,
                   windows, built, promise, child, timer, pastDeadline,
                   inflight, retry, markers, okProbe, pc>>

\* Both children are gone and nothing keeps the event loop alive: the
\* launcher exits, and the 'exit' handler, lines 39-42, runs.
FirstLauncherExits ==
    /\ program = "first"
    /\ appState = "running"
    /\ child[1] \notin Live
    /\ electron # "running"
    /\ FirstExit(0)
    /\ UNCHANGED <<envVars, rendererVars, pageVars, ipcVars, reason, preloadVars, storeVars, reported, health, resolveTimers, legacyVars,
                   ncalls, pythonProcess, windows, built, promise, child,
                   timer, pastDeadline, inflight, retry, markers, okProbe, pc>>

FirstNext ==
    \/ FirstStart
    \/ (program = "first" /\ BackendListens(1))
    \/ FirstServerError
    \/ FirstElectronError
    \/ FirstSigterm
    \/ FirstServerExits
    \/ FirstElectronExits
    \/ FirstLauncherExits

\* ------------------------------------------------- src/src/renderer.js

\* A catch block without line 330: every failed attempt is followed by the
\* delay and the next turn of the loop.
FetchRejectsNoRethrow ==
    /\ program = "renderer"
    /\ fpc = "fetching"
    /\ fetchState = "inflight"
    /\ fetchState' = "none"
    /\ outcomes' = Append(outcomes, "error")
    /\ fpc' = "sleeping"
    /\ delays' = Append(delays, RetryDelayMs)
    /\ UNCHANGED <<program, supervisorVars, pageVars, ipcVars, reason, preloadVars, storeVars, maxRetries, i, attempts, result>>

\* fetchWithRetry, lines 325-327: the loop test with i = k and
\* maxRetries = n, and the fetch of the attempt; past the last turn the
\* function returns undefined.
LoopHead(k, n) ==
    /\ i' = k
    /\ IF k < n
       THEN /\ fpc' = "fetching"
            /\ attempts' = attempts + 1
            /\ fetchState' \in {"inflight", "stalled"}
            /\ UNCHANGED result
       ELSE /\ fpc' = "returned"
            /\ fetchState' = "none"
            /\ result' = 0
            /\ UNCHANGED attempts

\* fetchWithRetry(url, options, n) is called, line 324.
FetchWithRetryCall(n) ==
    /\ program = "renderer"
    /\ fpc = "idle"
    /\ maxRetries' = n
    /\ LoopHead(0, n)
    /\ UNCHANGED <<program, supervisorVars, pageVars, ipcVars, reason, preloadVars, storeVars, outcomes, delays>>

\* The fetch of line 327 fulfils: line 328 returns its response.
FetchFulfils ==
    /\ program = "renderer"
    /\ fpc = "fetching"
    /\ fetchState = "inflight"
    /\ fetchState' = "none"
    /\ outcomes' = Append(outcomes, "ok")
    /\ result' = i + 1
    /\ fpc' = "returned"
    /\ UNCHANGED <<program, supervisorVars, pageVars, ipcVars, reason, preloadVars, storeVars, maxRetries, i, attempts, delays>>

\* The fetch of line 327 rejects: the catch block, lines 329-332.
FetchRejects ==
    /\ program = "renderer"
    /\ fpc = "fetching"
    /\ fetchState = "inflight"
    /\ fetchState' = "none"
    /\ outcomes' = Append(outcomes, "error")
    /\ IF i = maxRetries - 1
       THEN /\ fpc' = "threw"
            /\ result' = i + 1
            /\ UNCHANGED delays
       ELSE /\ fpc' = "sleeping"
            /\ delays' = Append(delays, RetryDelayMs)
            /\ UNCHANGED result
    /\ UNCHANGED <<program, supervisorVars, pageVars, ipcVars, reason, preloadVars, storeVars, maxRetries, i, attempts>>

\* The timer of line 331 fires: i++ and the next turn of the loop.
SleepEnds ==
    /\ program = "renderer"
    /\ fpc = "sleeping"
    /\ LoopHead(i + 1, maxRetries)
    /\ UNCHANGED <<program, supervisorVars, pageVars, ipcVars, reason, preloadVars, storeVars, maxRetries, outcomes, delays>>

\* A step of a running call of fetchWithRetry.
FetchWithRetryStep ==
    \/ FetchFulfils
    \/ FetchRejects
    \/ SleepEnds

\* String.prototype.trim, line 273, on the characters of the model.
RECURSIVE TrimLeft(_)
TrimLeft(s) ==
    IF s = <<>> THEN s
    ELSE IF Head(s) = " " THEN TrimLeft(Tail(s)) ELSE s

RECURSIVE TrimRight(_)
TrimRight(s) ==
    IF s = <<>> THEN s
    ELSE IF s[Len(s)] = " " THEN TrimRight(SubSeq(s, 1, Len(s) - 1)) ELSE s

Trim(s) == TrimRight(TrimLeft(s))

\* The health check of initializeApp, line 261, has obtained a response.
HealthResponded == fpc = "returned" /\ result >= 1

\* A request to http://localhost:5000/tasks, with whether the health check
\* had obtained a response when it was sent.
Req(method, origin, title) ==
    [method |-> method, origin |-> origin, title |-> title,
     ready |-> HealthResponded]

\* The page has handled DOMContentLoaded, lines 257-305: initializeApp has
\* called fetchWithRetry with the default maxRetries, and the click handler
\* is registered.
PageLoaded == fpc # "idle" /\ maxRetries = DefaultMaxRetries

\* window 'load', line 183: displayTasks, lines 185-204, fetches GET /tasks.
WindowLoad ==
    /\ program = "renderer"
    /\ PageLoaded
    /\ ~loadFired
    /\ loadFired' = TRUE
    /\ lastReq' = Req("GET", "load", <<>>)
    /\ UNCHANGED <<program, supervisorVars, ipcVars, reason, preloadVars, storeVars, rendererVars, initpc,
                   getAttempts, cpc, clicks, indicator, lastPost>>

\* initializeApp, lines 259-266, after `await fetchWithRetry(...)`:
\* refreshTaskList, lines 231-255, fetches GET /tasks once; when the health
\* check threw, the catch block logs the error.
InitializeAppResumes ==
    /\ program = "renderer"
    /\ PageLoaded
    /\ initpc = "idle"
    /\ fpc \in {"returned", "threw"}
    /\ IF fpc = "returned"
       THEN /\ initpc' = "refreshing"
            /\ getAttempts' = 1
            /\ lastReq' = Req("GET", "init", <<>>)
       ELSE /\ initpc' = "failed"
            /\ UNCHANGED <<getAttempts, lastReq>>
    /\ UNCHANGED <<program, supervisorVars, ipcVars, reason, preloadVars, storeVars, rendererVars, loadFired,
                   cpc, clicks, indicator, lastPost>>

\* The fetch of refreshTaskList, line 234, settles: the list is rendered,
\* or the catch block, lines 252-254, logs the error.
RefreshSettles(ok) ==
    /\ program = "renderer"
    /\ initpc = "refreshing"
    /\ initpc' = IF ok THEN "listed" ELSE "listError"
    /\ UNCHANGED <<program, supervisorVars, ipcVars, reason, preloadVars, storeVars, rendererVars, loadFired,
                   getAttempts, cpc, clicks, indicator, lastPost, lastReq>>

\* The add-task click handler, lines 272-290, up to its await; t is the
\* value of the title input.
ClickAddTask(t) ==
    /\ program = "renderer"
    /\ PageLoaded
    /\ cpc = "idle"
    /\ clicks < MaxClicks
    /\ clicks' = clicks + 1
    /\ IF Trim(t) = <<>>
       THEN /\ indicator' = "error"
            /\ UNCHANGED <<cpc, lastReq>>
       ELSE /\ cpc' = "posting"
            /\ lastReq' = Req("POST", "click", Trim(t))
            /\ UNCHANGED indicator
    /\ UNCHANGED <<program, supervisorVars, ipcVars, reason, preloadVars, storeVars, rendererVars, loadFired,
                   initpc, getAttempts, lastPost>>

\* The fetch of the click handler, line 281, settles.  outcome is "ok" (a
\* success status), "badRequest", "serverError" (the fetch fulfils, lines
\* 291-297) or "networkError" (it rejects, the catch block, lines 298-303):
\* both paths show the success indicator and call refreshTaskList.
PostSettles(outcome) ==
    /\ program = "renderer"
    /\ cpc = "posting"
    /\ cpc' = "idle"
    /\ lastPost' = outcome
    /\ indicator' = "success"
    /\ lastReq' = Req("GET", "click", <<>>)
    /\ UNCHANGED <<program, supervisorVars, ipcVars, reason, preloadVars, storeVars, rendererVars, loadFired,
                   initpc, getAttempts, clicks>>

\* The timer of showIndicator, lines 222-228, hides the indicator.
IndicatorHides ==
    /\ program = "renderer"
    /\ indicator # "none"
    /\ indicator' = "none"
    /\ UNCHANGED <<program, supervisorVars, ipcVars, reason, preloadVars, storeVars, rendererVars, loadFired,
                   initpc, getAttempts, cpc, clicks, lastPost, lastReq>>

\* createTask(taskData), lines 307-322: POST /tasks with
\* JSON.stringify(taskData); t is taskData.title.  No handler of the page
\* calls it: it is called directly, in a run of its own.
CreateTask(t) ==
    /\ program = "unit"
    /\ lastReq' = Req("POST", "createTask", t)
    /\ UNCHANGED <<program, supervisorVars, ipcVars, reason, preloadVars, storeVars, rendererVars, loadFired,
                   initpc, getAttempts, cpc, clicks, indicator, lastPost>>

\* ------------------------------------- src/unnamed/part_000, lines 61-70
\* The preload script that exposes the todo API.

\* An API whose updateTodo invokes the channel of addTodo.
ApiInvokeWrongChannel(method, arg) ==
    CASE method = "getTodos" -> <<[channel |-> "get-todos", args |-> <<>>]>>
      [] method = "addTodo" -> <<[channel |-> "add-todo", args |-> <<arg>>]>>
      [] method = "updateTodo" -> <<[channel |-> "add-todo", args |-> <<arg>>]>>
      [] method = "deleteTodo" -> <<[channel |-> "delete-todo", args |-> <<arg>>]>>

\* The methods of the object given to contextBridge.exposeInMainWorld('api'),
\* lines 63-70: the ipcRenderer.invoke calls a call of method makes.
ApiInvoke(method, arg) ==
    CASE method = "getTodos" -> <<[channel |-> "get-todos", args |-> <<>>]>>
      [] method = "addTodo" -> <<[channel |-> "add-todo", args |-> <<arg>>]>>
      [] method = "updateTodo" -> <<[channel |-> "update-todo", args |-> <<arg>>]>>
      [] method = "deleteTodo" -> <<[channel |-> "delete-todo", args |-> <<arg>>]>>

ApiMethods == {"getTodos", "addTodo", "updateTodo", "deleteTodo"}

\* window.api[method](arg) is called.
ApiCall(method, arg) ==
    /\ program = "unit"
    /\ apiCall' = [method |-> method, arg |-> arg]
    /\ invoked' = ApiInvoke(method, arg)
    /\ UNCHANGED <<program, supervisorVars, ipcVars, reason, rendererVars, pageVars,
                   storeVars, pyRun>>

\* ------------------------- src/src/renderer.js, lines 19-34 and 128-149
\* runPythonCommand: the callback it gives to PythonShell.run, in the two
\* revisions of the function (1: lines 29-32, 2: lines 139-147).

\* The results arrays PythonShell.run passes: undefined or null, or an array
\* of up to MaxResults results.
ResultsArgs ==
    {[defined |-> FALSE, items |-> <<>>]} \cup
    {[defined |-> TRUE, items |-> q] :
        q \in UNION {[1..n -> {"r1", "r2"}] : n \in 0..MaxResults}}

\* `if (err) reject(err)`: the statement has no return.
RejectIfErr(err) ==
    IF err # "none" THEN <<[kind |-> "reject", value |-> err]>> ELSE <<>>

\* Lines 141-144 of revision 2: `if (!results || results.length === 0)
\* reject(new Error('No results returned from Python script'))`, without
\* return; revision 1 has no such statement.
RejectIfNoResults(rev, results) ==
    IF rev = 2 /\ (~results.defined \/ Len(results.items) = 0)
    THEN <<[kind |-> "reject",
            value |-> "No results returned from Python script"]>>
    ELSE <<>>

\* `resolve(results[0])`, lines 31 and 146: results[0] throws a TypeError
\* when results is undefined or null, and is undefined when results is
\* empty.
ResolveFirst(results) ==
    IF ~results.defined THEN <<>>
    ELSE <<[kind |-> "resolve",
            value |-> IF Len(results.items) > 0 THEN results.items[1]
                      ELSE "undefined"]>>

\* The state of a promise after the calls of resolve and reject in q: the
\* first call settles it, the later ones do nothing.
Settled(q) ==
    IF q = <<>> THEN [state |-> "pending", value |-> "none"]
    ELSE [state |-> IF q[1].kind = "resolve" THEN "resolved" ELSE "rejected",
          value |-> q[1].value]

\* PythonShell.run calls the callback of revision rev with (err, results).
RunPythonCallback(rev, err, results) ==
    /\ program = "unit"
    /\ pyRun' = [rev |-> rev, err |-> err, results |-> results,
                 settles |-> RejectIfErr(err) \o RejectIfNoResults(rev, results)
                                 \o ResolveFirst(results),
                 thrown |-> ~results.defined]
    /\ UNCHANGED <<program, supervisorVars, ipcVars, reason, rendererVars, pageVars,
                   storeVars, apiCall, invoked>>

UnitNext ==
    \/ \E t \in Titles : CreateTask(t)
    \/ \E method \in ApiMethods, arg \in 1..MaxArg : ApiCall(method, arg)
    \/ \E rev \in {1, 2}, err \in {"none", "err"}, results \in ResultsArgs :
           RunPythonCallback(rev, err, results)

\* ------------------------------------------------------- the task store
\* The operations of the task store, after section 4.1 and the Task entity
\* of section 3 of the design document.

FieldNames == {"title", "completed", "notes"}

\* The field sets a caller passes to create and update: any subset of the
\* fields, each with a value of its type.
StoreTitles == {<<>>, <<" ">>, <<"a">>, <<" ", "a">>}
FieldSets ==
    {[k \in S |-> r[k]] :
        r \in [title : StoreTitles, completed : BOOLEAN, notes : {"n"}],
        S \in SUBSET FieldNames}

\* The patches given to update: the HTTP service validates its input, and
\* a stored title is never empty or whitespace-only, so that the title of a
\* patch is not blank.
Patches ==
    {f \in FieldSets : "title" \in DOMAIN f => Trim(f.title) # <<>>}

Ids(ts) == {ts[k].id : k \in 1..Len(ts)}

\* A validation that accepts every title that is not empty.
ValidTitleNotTrimmed(fields) ==
    "title" \in DOMAIN fields /\ fields.title # <<>>

\* title is present and is not empty or whitespace-only.
ValidTitle(fields) ==
    "title" \in DOMAIN fields /\ Trim(fields.title) # <<>>

\* A row whose completed is absent unless it is supplied.
NewTaskNoDefault(id, fields) ==
    [k \in DOMAIN fields \cup {"id"} |->
        IF k = "id" THEN id ELSE fields[k]]

\* The row create inserts: the supplied fields, the assigned id, and
\* completed false unless it is supplied.
NewTask(id, fields) ==
    [k \in DOMAIN fields \cup {"id", "completed"} |->
        IF k = "id" THEN id
        ELSE IF k \in DOMAIN fields THEN fields[k]
        ELSE FALSE]

\* A patch that replaces the row: the fields it does not supply are reset.
ApplyPatchReplacing(task, patch) == NewTask(task.id, patch)

\* The row after update: only the supplied fields change.
ApplyPatch(task, patch) ==
    [k \in DOMAIN task \cup DOMAIN patch |->
        IF k \in DOMAIN patch THEN patch[k] ELSE task[k]]

\* list(): all tasks in insertion order.
list == tasks

\* The largest of the ids in S, 0 when there is none.
MaxId(S) == IF S = {} THEN 0 ELSE CHOOSE x \in S : \A y \in S : y <= x

\* A create that assigns the id after the largest stored id.
CreateAfterLargestStored(fields) ==
    /\ program \in {"store", "service"}
    /\ storeCall' = "create"
    /\ IF ValidTitle(fields)
       THEN /\ nextId <= MaxCreates
            /\ tasks' = Append(tasks, NewTask(MaxId(Ids(tasks)) + 1, fields))
            /\ nextId' = nextId + 1
            /\ assigned' = Append(assigned, MaxId(Ids(tasks)) + 1)
            /\ storeRet' = "ok"
       ELSE /\ storeRet' = "ValidationError"
            /\ UNCHANGED <<tasks, nextId, assigned>>
    /\ UNCHANGED <<supervisorVars, ipcVars, reason, preloadVars, rendererVars,
                   pageVars, program>>

\* create(task_fields)
Create(fields) ==
    /\ program \in {"store", "service"}
    /\ storeCall' = "create"
    /\ IF ValidTitle(fields)
       THEN /\ nextId <= MaxCreates
            /\ tasks' = Append(tasks, NewTask(nextId, fields))
            /\ nextId' = nextId + 1
            /\ assigned' = Append(assigned, nextId)
            /\ storeRet' = "ok"
       ELSE /\ storeRet' = "ValidationError"
            /\ UNCHANGED <<tasks, nextId, assigned>>
    /\ UNCHANGED <<supervisorVars, ipcVars, reason, preloadVars, rendererVars,
                   pageVars, program>>

\* update(id, partial_fields)
Update(id, patch) ==
    /\ program \in {"store", "service"}
    /\ storeCall' = "update"
    /\ IF id \in Ids(tasks)
       THEN LET k == CHOOSE j \in 1..Len(tasks) : tasks[j].id = id
            IN /\ tasks' = [tasks EXCEPT ![k] = ApplyPatch(tasks[k], patch)]
               /\ storeRet' = "ok"
       ELSE /\ storeRet' = "NotFoundError"
            /\ UNCHANGED tasks
    /\ UNCHANGED <<supervisorVars, ipcVars, reason, preloadVars, rendererVars,
                   pageVars, program, nextId, assigned>>

\* A delete that ignores an id that does not exist.
DeleteIgnoresMissing(id) ==
    /\ program \in {"store", "service"}
    /\ storeCall' = "delete"
    /\ tasks' = SelectSeq(tasks, LAMBDA t : t.id # id)
    /\ storeRet' = "ok"
    /\ UNCHANGED <<supervisorVars, ipcVars, reason, preloadVars, rendererVars,
                   pageVars, program, nextId, assigned>>

\* delete(id)
Delete(id) ==
    /\ program \in {"store", "service"}
    /\ storeCall' = "delete"
    /\ IF id \in Ids(tasks)
       THEN /\ tasks' = SelectSeq(tasks, LAMBDA t : t.id # id)
            /\ storeRet' = "ok"
       ELSE /\ storeRet' = "NotFoundError"
            /\ UNCHANGED tasks
    /\ UNCHANGED <<supervisorVars, ipcVars, reason, preloadVars, rendererVars,
                   pageVars, program, nextId, assigned>>

\* The operations are called directly.
DirectCall == program = "store" /\ UNCHANGED response

StoreNext ==
    \/ \E fields \in FieldSets : Create(fields) /\ DirectCall
    \/ \E id \in 1..(MaxCreates + 1), patch \in Patches :
           Update(id, patch) /\ DirectCall
    \/ \E id \in 1..(MaxCreates + 1) : Delete(id) /\ DirectCall

\* ------------------------------------------------- the HTTP task service
\* The routes of the HTTP task service, after section 4.2 and the error
\* taxonomy of the design document.  Each request makes one call of the
\* store and maps its outcome to a status.

\* A service that answers every error of the store with 400.
ErrorStatusAlways400(outcome) == 400

\* ValidationError -> 400, NotFoundError -> 404.
ErrorStatus(outcome) ==
    CASE outcome = "ValidationError" -> 400
      [] outcome = "NotFoundError" -> 404

\* The statuses of success: 200 for GET and PUT/PATCH, 201 or 200 for
\* POST, 200 or 204 for DELETE.
SuccessStatus(method) ==
    CASE method = "GET" -> {200}
      [] method = "POST" -> {200, 201}
      [] method = "PUT" -> {200}
      [] method = "DELETE" -> {200, 204}

\* The response to a request of the method, after the call of the store:
\* a status of success, or the status of the error with an {error: message}
\* body.
Respond(method) ==
    /\ program = "service"
    /\ IF storeRet' = "ok"
       THEN \E st \in SuccessStatus(method) :
               response' = [method |-> method, status |-> st,
                            error |-> FALSE, list |-> <<>>]
       ELSE response' = [method |-> method, status |-> ErrorStatus(storeRet'),
                         error |-> TRUE, list |-> <<>>]

\* GET /tasks: the full task list.
HttpGetTasks ==
    /\ program = "service"
    /\ storeCall' = "list"
    /\ storeRet' = "ok"
    /\ response' = [method |-> "GET", status |-> 200, error |-> FALSE,
                    list |-> list]
    /\ UNCHANGED <<supervisorVars, ipcVars, reason, preloadVars, rendererVars,
                   pageVars, program, tasks, nextId, assigned>>

\* POST /tasks
HttpPostTasks(fields) == Create(fields) /\ Respond("POST")

\* PUT/PATCH /tasks/{id}: one route.
HttpPutTask(id, patch) == Update(id, patch) /\ Respond("PUT")

\* DELETE /tasks/{id}
HttpDeleteTask(id) == Delete(id) /\ Respond("DELETE")

ServiceNext ==
    \/ HttpGetTasks
    \/ \E fields \in FieldSets : HttpPostTasks(fields)
    \/ \E id \in 1..(MaxCreates + 1), patch \in Patches : HttpPutTask(id, patch)
    \/ \E id \in 1..(MaxCreates + 1) : HttpDeleteTask(id)

RendererNext ==
    \/ \E n \in 0..MaxRetries : FetchWithRetryCall(n)
    \/ FetchWithRetryStep
    \/ WindowLoad
    \/ InitializeAppResumes
    \/ \E ok \in BOOLEAN : RefreshSettles(ok)
    \/ \E t \in Titles : ClickAddTask(t)
    \/ \E outcome \in {"ok", "badRequest", "serverError", "networkError"} :
           PostSettles(outcome)
    \/ IndicatorHides

Next ==
    MainNext \/ LauncherNext \/ LegacyNext \/ DocNext \/ FirstNext
        \/ RendererNext \/ UnitNext \/ StoreNext \/ ServiceNext

Spec == Init /\ [][Next]_vars

\* ---------------------------------------------------------------- claims

\* The calls of the revisions in prog.
CallsOf(prog) == IF program \in prog THEN Calls ELSE {}

\* The supervisor of call c has reported ready: the promise of
\* startPythonServer is resolved; in the legacy revision, which has no
\* promise, the serverReady flag is set.
SupervisorReady(c) ==
    IF program = "legacy" THEN serverReady ELSE promise[c] = "resolved"

\* C1: when startPythonServer has failed (its promise is rejected), the
\* startup is aborted: the application has quit (the launcher has exited
\* with code 1 and has not spawned Electron) and the call has constructed
\* no BrowserWindow.
C1_FailedStartAborts ==
    \A c \in CallsOf({"main", "launcher"}) :
        promise[c] = "rejected" =>
            /\ appState = "quit"
            /\ pc[c] = "done"
            /\ c \notin built
            /\ program = "launcher" => (exitCode = 1 /\ electron = "none")

\* A start that was rejected after its child was spawned: by the startup
\* timer, or by the 'error' event of the spawn.
C1_Witness ==
    \E c \in CallsOf({"main", "launcher"}) :
        /\ promise[c] = "rejected"
        /\ \/ timer[c] = "fired"
           \/ child[c] = "errored"

\* C2: every call that has constructed a BrowserWindow did so with its
\* supervisor ready.
C2_WindowOnlyAfterReady ==
    \A c \in CallsOf({"main", "legacy"}) : c \in built => SupervisorReady(c)

\* C3: the ready transition is final, and once it has happened no further
\* GET /health is issued for that start.
C3_NoProbeAfterReady ==
    [][\A c \in CallsOf({"main"}) :
          promise[c] = "resolved" =>
              /\ promise'[c] = "resolved"
              /\ inflight'[c] <= inflight[c]]_vars

\* C4: a start whose child is alive and whose backend answers /health with
\* success when the readiness deadline elapses is ready by then, whatever
\* the child has written.
C4_ReadyByDeadline ==
    \A c \in CallsOf({"main", "launcher"}) :
        (pastDeadline[c] /\ child[c] = "running" /\ health = "up")
            => promise[c] = "resolved"

\* C5: ready is declared only after a probe has completed with a success
\* status.
C5_ReadyOnlyAfterOkProbe ==
    \A c \in CallsOf({"main", "launcher"}) :
        promise[c] = "resolved" => okProbe[c]

\* C6: the exit of the child of a start that is still starting rejects the
\* promise of that start, in the step of the exit.
C6_ExitWhileStartingFails ==
    [][\A c \in CallsOf({"main", "launcher"}) :
          (promise[c] = "pending" /\ child[c] \in Live /\ child'[c] = "exited")
              => promise'[c] = "rejected"]_vars

\* C7: once the readiness deadline of a start has elapsed, its promise is
\* settled.
C7_SettledByDeadline ==
    \A c \in CallsOf({"main", "launcher", "doc"}) :
        pastDeadline[c] => promise[c] \in {"resolved", "rejected"}

\* C8: while a start is starting, a probe that fails with a network error
\* leaves it starting and schedules exactly one further probe.
C8_FailedProbeRetries ==
    [][\A c \in CallsOf({"main", "launcher"}) :
          (promise[c] = "pending" /\ health = "down" /\ inflight'[c] < inflight[c])
              => (promise'[c] = "pending" /\ retry'[c] = retry[c] + 1)]_vars

\* C9: once a start has failed or its child has exited, no probe is issued
\* and none is scheduled for it.
C9_NoProbeAfterFailed ==
    [][\A c \in CallsOf({"main"}) :
          (promise[c] = "rejected" \/ child[c] \in {"exited", "errored"})
              => (inflight'[c] <= inflight[c] /\ retry'[c] <= retry[c])]_vars

\* C10: the outcome of a start is final: failed stays failed, ready stays
\* ready, and a start whose child has been killed does not become ready.
C10_OutcomeFinal ==
    [][\A c \in CallsOf({"main", "launcher"}) :
          /\ promise[c] = "rejected" => promise'[c] = "rejected"
          /\ promise[c] = "resolved" => promise'[c] = "resolved"
          /\ child[c] = "killed" =>
                 /\ child'[c] = "killed"
                 /\ promise[c] # "resolved" => promise'[c] # "resolved"]_vars

\* C11: at no time are two backend children alive at once.
C11_SingleBackend ==
    \A c, d \in CallsOf({"main", "launcher"}) :
        (c # d /\ child[c] \in Live) => child[d] \notin Live

\* C12: once 'window-all-closed' has sent kill to a backend child, no step
\* spawns another backend.
C12_NoSpawnAfterStop ==
    [][(\E c \in CallsOf({"main"}) : child[c] = "killed") =>
          \A d \in CallsOf({"main"}) : child[d] = "none" => child'[d] = "none"]_vars

\* C13: a start that has failed (its createWindow / start has run its catch
\* block) has no live backend child left.
C13_FailedStartKillsChild ==
    \A c \in CallsOf({"main", "launcher"}) :
        pc[c] = "done" => child[c] \notin Live

\* C14: a step in which the user shuts the application down (closes the
\* last window of main.js, or quits the application) leaves no backend
\* child alive: each one that had not exited has been sent a kill.
C14_ShutdownKillsEveryChild ==
    [][((appState = "running" /\ pc' = pc) /\
          (appState' = "quit" \/ (program = "main" /\ windows # {} /\ windows' = {})))
          => \A c \in CallsOf({"main", "legacy"}) : child'[c] \notin Live]_vars

\* C15: a step in which a launcher receives SIGTERM or exits leaves neither
\* the backend child nor the Electron child alive and unsignalled, and its
\* termination handler has not thrown.
C15_TerminationKillsChildren ==
    [][(/\ program \in {"launcher", "doc", "first"}
        /\ appState = "running"
        /\ (termHandler' # termHandler \/ appState' = "quit"))
          => /\ child'[1] \notin Live
             /\ electron' # "running"
             /\ termHandler' # "threw"]_vars

\* C16: the exit of the child of a start that is ready is reported to the
\* shell, and the application keeps running.
C16_ExitAfterReadyReported ==
    [][\A c \in CallsOf({"main", "launcher"}) :
          (promise[c] = "resolved" /\ child[c] \in Live /\ child'[c] = "exited")
              => (c \in reported' /\ appState' = "running")]_vars

\* C17: a launcher has spawned Electron only with the promise of
\* startPythonServer resolved; with the promise rejected, Electron was never
\* spawned.
C17_ElectronOnlyAfterReady ==
    /\ (program \in {"launcher", "doc", "first"} /\ electron # "none")
           => promise[1] = "resolved"
    /\ (program \in {"launcher", "doc", "first"} /\ promise[1] = "rejected")
           => electron = "none"

\* C18: a call of fetchWithRetry with maxRetries >= 1 makes at most
\* maxRetries attempts; when it has returned, the last attempt made is the
\* only one that did not throw and its response is what was returned; when
\* it has thrown, all maxRetries attempts threw and the error is that of
\* the last one.
C18_BoundedRetry ==
    (program = "renderer" /\ maxRetries >= 1) =>
        /\ attempts <= maxRetries
        /\ Len(outcomes) <= attempts
        /\ fpc = "returned" =>
               /\ attempts = Len(outcomes)
               /\ result = attempts
               /\ \A k \in 1..attempts :
                      outcomes[k] = (IF k = attempts THEN "ok" ELSE "error")
        /\ fpc = "threw" =>
               /\ attempts = maxRetries
               /\ result = maxRetries
               /\ Len(outcomes) = maxRetries
               /\ \A k \in 1..maxRetries : outcomes[k] = "error"

\* A call that has used its whole budget of at least two attempts and has
\* thrown.
C18_Witness ==
    /\ program = "renderer"
    /\ maxRetries >= 2
    /\ fpc = "threw"

\* C19: the delays waited between successive attempts grow strictly.
C19_DelayGrows ==
    program = "renderer" =>
        \A k \in 1..(Len(delays) - 1) : delays[k + 1] > delays[k]

\* C20: a call of fetchWithRetry that has not returned or thrown can take a
\* step: no attempt waits for ever on a fetch that never settles.
C20_AttemptBounded ==
    (program = "renderer" /\ fpc \in {"fetching", "sleeping"})
        => ENABLED FetchWithRetryStep

\* C21: a request to /tasks that failed with a network error is reported as
\* failed only after at least one more attempt: the list refresh of
\* initializeApp that has logged its error has made at least two fetches.
C21_TaskRequestRetried ==
    (program = "renderer" /\ initpc = "listError") => getAttempts >= 2

\* C22: the success indicator is shown only when the POST of the click
\* handler completed with a success status.
C22_SuccessOnlyAfterOk ==
    (program = "renderer" /\ indicator = "success") => lastPost = "ok"

\* C23: every request the page has sent to /tasks was sent after its health
\* check had obtained a response.
C23_NoTaskRequestBeforeHealth ==
    (program = "renderer" /\ lastReq.method # "none") => lastReq.ready

\* C24: no POST /tasks is sent with a title that is empty or consists of
\* blanks only, by the click handler, by createTask or by the 'tasks:add'
\* handler.
C24_NoBlankTitlePosted ==
    /\ lastReq.method = "POST" => Trim(lastReq.title) # <<>>
    /\ ipcReq.method = "POST" => Trim(ipcReq.title) # <<>>

\* C25: once the app is ready, the main process has registered a handler
\* for each of the channels 'get-todos', 'add-todo', 'update-todo' and
\* 'delete-todo'.
C25_TodoHandlersRegistered ==
    (program = "main" /\ appState # "starting") =>
        {"get-todos", "add-todo", "update-todo", "delete-todo"} \subseteq handlers

RowsWithId(ts, id) == {k \in 1..Len(ts) : ts[k].id = id}

\* C27: create with a title that is not blank, in any state of the store,
\* leaves a list that holds every task stored before, unchanged and in its
\* place, and exactly one more task: it has an id that no stored task had,
\* each supplied field with the supplied value, completed false when
\* completed was not supplied, and no other field.
C27_CreateThenList ==
    [][(program = "store" /\ storeCall' = "create") => \A fields \in FieldSets :
          (Create(fields) /\ "title" \in DOMAIN fields
                          /\ Trim(fields.title) # <<>>) =>
              /\ storeRet' = "ok"
              /\ Len(list') = Len(list) + 1
              /\ SubSeq(list', 1, Len(list)) = list
              /\ LET new == list'[Len(list')]
                 IN /\ new.id \notin Ids(list)
                    /\ Cardinality(RowsWithId(list', new.id)) = 1
                    /\ DOMAIN new = DOMAIN fields \cup {"id", "completed"}
                    /\ \A k \in DOMAIN fields : new[k] = fields[k]
                    /\ "completed" \notin DOMAIN fields => new.completed = FALSE
      ]_vars

\* A second task has been created, without a value for completed.
C27_Witness ==
    /\ program = "store"
    /\ storeCall = "create" /\ storeRet = "ok"
    /\ Len(tasks) = 2
    /\ tasks[2].completed = FALSE
    /\ "notes" \in DOMAIN tasks[2]

\* C28: create with a missing, an empty or a whitespace-only title fails
\* with ValidationError and leaves the list of the store as it was.
C28_CreateBlankTitleFails ==
    [][(program = "store" /\ storeCall' = "create") => \A fields \in FieldSets :
          (Create(fields) /\ ("title" \notin DOMAIN fields
                              \/ Trim(fields.title) = <<>>)) =>
              /\ storeRet' = "ValidationError"
              /\ list' = list
              /\ Ids(list') = Ids(list)
      ]_vars

\* A create has failed in a store that holds a task.
C28_Witness ==
    /\ program = "store"
    /\ storeCall = "create" /\ storeRet = "ValidationError"
    /\ Len(tasks) = 1

\* C29: update of an existing id succeeds, gives each field of the patch
\* its value in the patch, and leaves every other field of that task and
\* every other task as it was; with an empty patch the task is as it was.
\* The title of a patch is not blank.
C29_UpdatePatchesOnly ==
    [][(program = "store" /\ storeCall' = "update") =>
       \A id \in Ids(tasks), patch \in Patches :
          Update(id, patch) =>
              /\ storeRet' = "ok"
              /\ Len(list') = Len(list)
              /\ \A k \in 1..Len(list) :
                    IF list[k].id = id
                    THEN /\ DOMAIN list'[k] = DOMAIN list[k] \cup DOMAIN patch
                         /\ \A f \in DOMAIN patch : list'[k][f] = patch[f]
                         /\ \A f \in DOMAIN list[k] \ DOMAIN patch :
                               list'[k][f] = list[k][f]
                         /\ DOMAIN patch = {} => list'[k] = list[k]
                    ELSE list'[k] = list[k]
      ]_vars

\* An update has succeeded in a store of two tasks, one of which has notes
\* and is completed while the other has no notes and is pending.
C29_Witness ==
    /\ program = "store"
    /\ storeCall = "update" /\ storeRet = "ok"
    /\ Len(tasks) = 2
    /\ "notes" \in DOMAIN tasks[1] /\ tasks[1].completed
    /\ "notes" \notin DOMAIN tasks[2] /\ ~tasks[2].completed

\* C30: update and delete of an id that no stored task has fail with
\* NotFoundError and leave the list of the store as it was; this includes
\* the delete of an id whose task was deleted before.
C30_MissingIdFails ==
    [][(program = "store" /\ storeCall' \in {"update", "delete"}) =>
       \A id \in (1..(MaxCreates + 1)) \ Ids(tasks) :
          /\ Delete(id) => (storeRet' = "NotFoundError" /\ list' = list)
          /\ \A patch \in Patches :
                Update(id, patch) =>
                    (storeRet' = "NotFoundError" /\ list' = list)
      ]_vars

\* A delete has failed for an id that was assigned and is not stored any
\* more, in a store that still holds a task.
C30_Witness ==
    /\ program = "store"
    /\ storeCall = "delete" /\ storeRet = "NotFoundError"
    /\ Len(tasks) = 1
    /\ tasks[1].id = 2
    /\ nextId = 3

\* The elements of the sequence q.
Range(q) == {q[k] : k \in 1..Len(q)}

\* The ids of the rows ts, in the order of the rows.
IdSeq(ts) == [k \in 1..Len(ts) |-> ts[k].id]

\* C31: after every operation of the store, the ids create has assigned
\* are strictly increasing in creation order (so pairwise distinct, also
\* when the task that held an id was deleted), the stored tasks have
\* pairwise distinct ids, and a stored id that was not stored before the
\* operation is an id the operation assigned: no operation changes the id
\* of a stored task, and the tasks that stay keep their order.
C31_IdsNeverReused ==
    [][program = "store" =>
          /\ \A a, b \in 1..Len(assigned') : a < b => assigned'[a] < assigned'[b]
          /\ Cardinality(Ids(tasks')) = Len(tasks')
          /\ Ids(tasks') \ Ids(tasks) \subseteq Range(assigned') \ Range(assigned)
          /\ SelectSeq(IdSeq(tasks'), LAMBDA x : x \in Ids(tasks))
               = SelectSeq(IdSeq(tasks), LAMBDA x : x \in Ids(tasks'))
          /\ storeCall' = "update" => IdSeq(tasks') = IdSeq(tasks)
      ]_vars

\* A task has been created after the task with the largest id was deleted.
C31_Witness ==
    /\ program = "store"
    /\ storeCall = "create" /\ storeRet = "ok"
    /\ Len(assigned) = 2
    /\ Ids(tasks) = {2}

\* C32: DELETE and PUT/PATCH of an id that was never created are answered
\* with 404 and an error body, POST with a missing or blank title with 400
\* and an error body, and none of them changes the list a following GET
\* /tasks returns; GET /tasks is answered with 200 and the stored list.
C32_ServiceStatuses ==
    [][program = "service" =>
          /\ \A id \in (1..(MaxCreates + 1)) \ Range(assigned) :
                /\ HttpDeleteTask(id) =>
                      /\ response'.status = 404 /\ response'.error
                      /\ list' = list
                /\ \A patch \in Patches :
                      HttpPutTask(id, patch) =>
                          /\ response'.status = 404 /\ response'.error
                          /\ list' = list
          /\ \A fields \in FieldSets :
                (HttpPostTasks(fields) /\ ("title" \notin DOMAIN fields
                                           \/ Trim(fields.title) = <<>>)) =>
                    /\ response'.status = 400 /\ response'.error
                    /\ list' = list
          /\ HttpGetTasks =>
                /\ response'.status = 200 /\ ~response'.error
                /\ response'.list = list /\ list' = list
      ]_vars

\* DELETE of an id that was never created has been answered, in a store
\* whose only task ever created is stored.
C32_Witness ==
    /\ program = "service"
    /\ response.method = "DELETE" /\ response.status = 404
    /\ assigned = <<1>>
    /\ Ids(tasks) = {1}

\* C33, as stated: when the fetch of a tasks:fetch or tasks:add handler
\* rejects, the handler writes one error entry that names the operation to
\* the log, rejects the invocation with the error of the fetch, and leaves
\* pythonProcess unchanged.
C33_FetchFailureLogged ==
    [][\A e \in FetchErrors, writable \in BOOLEAN :
          MainIpcFetchRejects(e, writable) =>
              /\ ipcCall'.state = "rejected" /\ ipcCall'.error = e
              /\ Len(ipcCall'.entries) = 1
              /\ ipcCall'.entries[1].level = "error"
              /\ ipcCall'.entries[1].message.operation = ipcCall.channel
              /\ pythonProcess' = pythonProcess
      ]_vars

\* C33, amended: when the fetch of a tasks:fetch or tasks:add handler
\* rejects, the handler rejects the invocation with the error of the fetch
\* and leaves pythonProcess unchanged; it writes one error entry that names
\* the operation and the error to the log if the log file can be appended
\* to, and otherwise no entry, and one console.error line about the log
\* file.
C33_FetchFailureRethrown ==
    [][\A e \in FetchErrors, writable \in BOOLEAN :
          MainIpcFetchRejects(e, writable) =>
              /\ ipcCall'.state = "rejected" /\ ipcCall'.error = e
              /\ pythonProcess' = pythonProcess
              /\ IF writable
                 THEN /\ Len(ipcCall'.entries) = 1
                      /\ ipcCall'.entries[1].level = "error"
                      /\ ipcCall'.entries[1].message
                           = [operation |-> ipcCall.channel, error |-> e]
                      /\ ipcCall'.console = <<>>
                 ELSE /\ ipcCall'.entries = <<>>
                      /\ Len(ipcCall'.console) = 1
      ]_vars

\* The fetch of a tasks:add handler has rejected while a backend process is
\* held and the log file cannot be written.
C33_Witness ==
    /\ program = "main"
    /\ ipcCall.channel = "tasks:add"
    /\ ipcCall.state = "rejected" /\ ipcCall.error \in FetchErrors
    /\ ipcCall.entries = <<>> /\ ipcCall.console # <<>>
    /\ pythonProcess # 0

\* C34: a call of startPythonServer that finds no server script rejects
\* with 'Server script not found', and neither then nor later is a process
\* spawned for it, its deadline timer started or a probe of it sent; the
\* call leaves pythonProcess, and the children, timers and probes of the
\* other calls, as they were.
C34_MissingScriptRejects ==
    [][\A c \in CallsOf({"main"}) :
          /\ (~scriptExists /\ ncalls' = c /\ ncalls # c) =>
                /\ promise'[c] = "rejected"
                /\ reason'[c] = "Server script not found at:"
                /\ pythonProcess' = pythonProcess
                /\ child' = child /\ child[c] = "none"
                /\ timer' = timer /\ timer[c] = "none"
                /\ inflight' = inflight /\ inflight[c] = 0
                /\ retry' = retry /\ retry[c] = 0
          /\ reason[c] = "Server script not found at:" =>
                /\ promise'[c] = "rejected"
                /\ child'[c] = "none" /\ timer'[c] = "none"
                /\ inflight'[c] = 0 /\ retry'[c] = 0
                /\ pythonProcess' # c
      ]_vars

\* A second call has found no server script while the process of the first
\* call is held.
C34_Witness ==
    /\ program = "main"
    /\ ~scriptExists
    /\ ncalls = 2
    /\ promise[2] = "rejected"
    /\ pythonProcess = 1

\* C35: whenever a window exists, each channel the preload bridge invokes
\* for a task operation has a handler registered in the main process.
C35_BridgeChannelsHandled ==
    (program = "main" /\ windows # {}) => BridgeChannels \subseteq handlers

\* C36: after PythonShell.run has called the callback of runPythonCommand,
\* the callback has not thrown and the promise is settled: rejected with
\* the error when there is one, rejected with 'No results returned from
\* Python script' when there is none and the results are missing or empty,
\* and resolved with the first result otherwise.
C36_RunPythonCommandSettles ==
    (program = "unit" /\ pyRun.rev # 0) =>
        /\ ~pyRun.thrown
        /\ Settled(pyRun.settles) =
             IF pyRun.err # "none"
             THEN [state |-> "rejected", value |-> pyRun.err]
             ELSE IF ~pyRun.results.defined \/ Len(pyRun.results.items) = 0
             THEN [state |-> "rejected",
                   value |-> "No results returned from Python script"]
             ELSE [state |-> "resolved", value |-> pyRun.results.items[1]]

====
